---------------------------- MODULE Spec2Model ----------------------------
(***************************************************************************)
(* A model of the hormone status pipeline of saliva-hormone-ai-tracker:   *)
(* the rule-based Reference Model (classify_status), the synthetic data   *)
(* generator (generate_realistic_dataset), the persisted artifact         *)
(* (train_model / load_model / predict_status), the training run itself,  *)
(* the per-hormone breakdown (analyze_hormones) and the web application   *)
(* (login, logout, add_data, delete_record).                              *)
(*                                                                         *)
(* Hormone values are fixed-point integers in thousandths of the unit of  *)
(* the source (cortisol 3.0 ng/mL is 3000): every threshold of the source *)
(* is an integer and a value rounded to two decimals is a multiple of 10. *)
(***************************************************************************)
EXTENDS Integers, Sequences, FiniteSets, TLC

VARIABLES
    reading,    \* the arguments of classify_status: hormone values, gender, time_of_day
    result,     \* what classify_status computed for `reading`: local score and returned label
    moved,      \* the hormone whose value was replaced by a worse one ("none" before)
    calls,      \* the frame (locals and position) of each generate_realistic_dataset call
    np_random,  \* the state of numpy's global random generator (np.random)
    py_random,  \* the state of the random module's global generator
    today,      \* the wall clock, in days, as datetime.now() reads it
    running,    \* the call that took the last step ("none" before the first)
    preemptions, \* how often a call took a step while the running call was under way
    files,      \* the persisted files: which training run wrote each, and whether fully
    procs,      \* the frame of each process working on the artifact
    runs,       \* the number of training runs so far (the last run's number)
    training,   \* the frame of a train_model call: its argument df and its locals
    query,      \* the frame of a predict_status call made with the trained model
    session,    \* the Flask session of the browser: its user_id (0: not logged in)
    hormone_records, \* the rows of the table hormone_records, in the order of their ids
    next_id,    \* the id the table gives to the next row (AUTOINCREMENT)
    ml,         \* the classifier and the scaler the web application predicts with
    response    \* what the last request to the web application did and answered

classifyVars == <<reading, result, moved>>

genVars == <<calls, np_random, py_random, today, running, preemptions>>

artVars == <<files, procs, runs>>

trainVars == <<training, query>>

appVars == <<session, hormone_records, next_id, ml, response>>

vars == <<reading, result, moved, calls, np_random, py_random, today, running, preemptions,
          files, procs, runs, training, query,
          session, hormone_records, next_id, ml, response>>

-----------------------------------------------------------------------------
(* Bounds of the model *)

\* how far (in thousandths) around each threshold the input grid reaches
Slack == 1

\* the number of states of the model's pseudo-random generators
RngMod == 64

\* the seeds tried are DefaultSeed .. DefaultSeed + MaxSeed
MaxSeed == 1

\* the largest n_samples tried
MaxSamples == 2

\* the wall clock runs over the days 0 .. MaxDay
MaxDay == 1

\* how often the scheduler may switch away from a call that is under way
MaxPreemptions == 1

\* the largest number a training run gets (run 1 wrote the files present at the start)
MaxRuns == 3

\* how many calls (predictions or trainings) one process makes
MaxCalls == 2

-----------------------------------------------------------------------------
(* The Reference Model: classify_status *)

STATUS_LEVELS == <<"Normal", "Mild Imbalance", "Moderate Imbalance", "Severe Imbalance">>

Genders == {"Male", "Female"}

\* "Night" stands for any time_of_day string other than the three recognised ones
TimesOfDay == {"Morning", "Afternoon", "Evening", "Night"}

Hormones == {"cortisol", "estrogen", "testosterone"}

\* The four cut points <<severe low, mild low, mild high, severe high>> of the
\* cortisol check for a time of day.
CortisolCuts(time_of_day) ==
    IF time_of_day = "Morning" THEN <<3000, 4000, 10000, 12000>>
    ELSE IF time_of_day = "Afternoon" THEN <<500, 1000, 4000, 6000>>
    ELSE <<200, 300, 2000, 4000>>

EstrogenCuts(gender) ==
    IF gender = "Male" THEN <<500, 1000, 4000, 6000>>
    ELSE <<500, 1000, 8000, 12000>>

TestosteroneCuts(gender) ==
    IF gender = "Male" THEN <<30000, 50000, 200000, 250000>>
    ELSE <<5000, 10000, 55000, 80000>>

\* BandCheck with the two increments exchanged
BandCheck_Swapped(score, v, cuts) ==
    IF v < cuts[1] \/ v > cuts[4] THEN score + 1
    ELSE IF v < cuts[2] \/ v > cuts[3] THEN score + 2
    ELSE score

\* BandCheck with the borderline comparisons made inclusive
BandCheck_Inclusive(score, v, cuts) ==
    IF v < cuts[1] \/ v > cuts[4] THEN score + 2
    ELSE IF v <= cuts[2] \/ v >= cuts[3] THEN score + 1
    ELSE score

\* One hormone's check: `if v < a or v > d: score += 2 / elif v < b or v > c: score += 1`
BandCheck(score, v, cuts) ==
    IF v < cuts[1] \/ v > cuts[4] THEN score + 2
    ELSE IF v < cuts[2] \/ v > cuts[3] THEN score + 1
    ELSE score

\* CortisolCheck with `>=` for the upper severe cut
CortisolCheck_GreaterEqual(score, cortisol, time_of_day) ==
    LET cuts == CortisolCuts(time_of_day)
    IN  IF cortisol < cuts[1] \/ cortisol >= cuts[4] THEN score + 2
        ELSE IF cortisol < cuts[2] \/ cortisol > cuts[3] THEN score + 1
        ELSE score

CortisolCheck(score, cortisol, time_of_day) ==
    BandCheck(score, cortisol, CortisolCuts(time_of_day))

EstrogenCheck(score, estrogen, gender) ==
    BandCheck(score, estrogen, EstrogenCuts(gender))

TestosteroneCheck(score, testosterone, gender) ==
    BandCheck(score, testosterone, TestosteroneCuts(gender))

\* the local `score` of classify_status when it reaches the conversion to a label
ScoreOf(cortisol, estrogen, testosterone, gender, time_of_day) ==
    TestosteroneCheck(
        EstrogenCheck(
            CortisolCheck(0, cortisol, time_of_day),
            estrogen, gender),
        testosterone, gender)

\* StatusOfScore with `>` for the Moderate cut
StatusOfScore_Strict(score) ==
    IF score >= 5 THEN "Severe Imbalance"
    ELSE IF score > 3 THEN "Moderate Imbalance"
    ELSE IF score >= 1 THEN "Mild Imbalance"
    ELSE "Normal"

StatusOfScore(score) ==
    IF score >= 5 THEN "Severe Imbalance"
    ELSE IF score >= 3 THEN "Moderate Imbalance"
    ELSE IF score >= 1 THEN "Mild Imbalance"
    ELSE "Normal"

classify_status(cortisol, estrogen, testosterone, gender, time_of_day) ==
    StatusOfScore(ScoreOf(cortisol, estrogen, testosterone, gender, time_of_day))


-----------------------------------------------------------------------------
(* Inputs of classify_status *)

\* the readings of the sample predictions of __main__ (thousandths)
SampleCortisol == {5000, 12000, 3000}
SampleEstrogen == {3000, 2000, 6000}
SampleTestosterone == {100000, 40000, 35000}

Around(cuts) == UNION {(cuts[k] - Slack)..(cuts[k] + Slack) : k \in 1..4}

\* the cortisol values tried for a time of day: every value within Slack of a
\* cut point of that time of day, and the sample readings
CortisolGrid(time_of_day) == Around(CortisolCuts(time_of_day)) \cup SampleCortisol
EstrogenGrid(gender) == Around(EstrogenCuts(gender)) \cup SampleEstrogen
TestosteroneGrid(gender) == Around(TestosteroneCuts(gender)) \cup SampleTestosterone

Readings ==
    UNION {
        [cortisol : CortisolGrid(t), estrogen : EstrogenGrid(g),
         testosterone : TestosteroneGrid(g), gender : {g}, time_of_day : {t}]
        : <<g, t>> \in Genders \X TimesOfDay }

NoResult == [score |-> -1, status |-> "none"]

Classified(r) ==
    [score  |-> ScoreOf(r.cortisol, r.estrogen, r.testosterone, r.gender, r.time_of_day),
     status |-> classify_status(r.cortisol, r.estrogen, r.testosterone,
                                r.gender, r.time_of_day)]

\* the band of a hormone that contributes 0 to the score, <<low end, high end>>
NormalBand(h, gender, time_of_day) ==
    LET cuts == IF h = "cortisol" THEN CortisolCuts(time_of_day)
                ELSE IF h = "estrogen" THEN EstrogenCuts(gender)
                ELSE TestosteroneCuts(gender)
    IN  <<cuts[2], cuts[3]>>

GridOf(h, gender, time_of_day) ==
    IF h = "cortisol" THEN CortisolGrid(time_of_day)
    ELSE IF h = "estrogen" THEN EstrogenGrid(gender)
    ELSE TestosteroneGrid(gender)

\* what one hormone's check adds to the score
Contribution(h, r) ==
    IF h = "cortisol" THEN CortisolCheck(0, r.cortisol, r.time_of_day)
    ELSE IF h = "estrogen" THEN EstrogenCheck(0, r.estrogen, r.gender)
    ELSE TestosteroneCheck(0, r.testosterone, r.gender)

\* v is further from the normal band than cur, on the same side
Further(band, cur, v) ==
    \/ cur < band[1] /\ v < cur
    \/ cur > band[2] /\ v > cur

-----------------------------------------------------------------------------
(* The pseudo-random sources.  A generator is a state in 0..RngMod-1; a draw  *)
(* advances the state and returns the new state u, which stands for the       *)
(* fraction u / RngMod of [0, 1).  Seeding sets the state from the seed.      *)

DefaultSeed == 42

Seeds == DefaultSeed..(DefaultSeed + MaxSeed)

Calls == {"A", "B"}

Advance(s) == (5 * s + 3) % RngMod

RECURSIVE AdvanceN(_, _)
AdvanceN(s, k) == IF k = 0 THEN s ELSE AdvanceN(Advance(s), k - 1)

\* np.random.seed(seed) and random.seed(seed)
SeedState(seed) == seed % RngMod

\* np.random.uniform(lo, hi)
Uniform(lo, hi, u) == lo + ((hi - lo) * u) \div RngMod

\* np.random.choice(items, p=...): the position chosen, cum being the
\* cumulative probabilities in percent
Choice(cum, u) ==
    LET r == (100 * u) \div RngMod
    IN  CHOOSE k \in 1..Len(cum) : r < cum[k] /\ \A j \in 1..(k - 1) : r >= cum[j]

\* the standard normal deviates the model draws, in hundredths
ZTable == <<-300, -150, -60, -20, 20, 60, 150, 300>>

\* np.random.normal(mu, sigma)
Normal(mu, sigma, u) == mu + (sigma * ZTable[1 + (Len(ZTable) * u) \div RngMod]) \div 100

\* random.randint(0, 730)
RandInt730(u) == (731 * u) \div RngMod

Max(a, b) == IF a >= b THEN a ELSE b
Min(a, b) == IF a <= b THEN a ELSE b

\* round(x, 2) of a value in thousandths
Round2(x) == ((x + 5) \div 10) * 10

-----------------------------------------------------------------------------
(* The synthetic data generator *)

HealthConditions ==
    <<"Healthy", "Stressed", "PCOS", "Thyroid", "Adrenal", "Menopause", "Low_T">>

\* np.random.normal(35, 12, n).clip(18, 70).astype(int), one element
AgeOf(u) == Min(70000, Max(18000, Normal(35000, 12000, u))) \div 1000

GenderOf(u) == <<"Male", "Female">>[Choice(<<48, 100>>, u)]

TimeOf(u) == <<"Morning", "Afternoon", "Evening">>[Choice(<<50, 80, 100>>, u)]

ConditionOf(u) == HealthConditions[Choice(<<45, 65, 73, 80, 85, 93, 100>>, u)]

\* generate_cortisol: the base value, the condition factor, the age factor
CortisolBase(time_of_day, u) ==
    IF time_of_day = "Morning" THEN Uniform(4000, 10000, u)
    ELSE IF time_of_day = "Afternoon" THEN Uniform(1000, 4000, u)
    ELSE Uniform(300, 2000, u)

NeedsCortisolDraw(condition) == condition \in {"Stressed", "Adrenal", "Thyroid"}

CortisolCondition(cortisol, condition, u) ==
    IF condition = "Stressed" THEN (cortisol * Uniform(1300, 2000, u)) \div 1000
    ELSE IF condition = "Adrenal" THEN (cortisol * <<300, 2500>>[1 + (2 * u) \div RngMod]) \div 1000
    ELSE (cortisol * Uniform(700, 1400, u)) \div 1000

CortisolAge(cortisol, age) == (cortisol * (1000 + (age - 35) * 5)) \div 1000

\* generate_estrogen
PhaseOf(u) == <<"follicular", "ovulation", "luteal">>[Choice(<<40, 60, 100>>, u)]

EstrogenBase(phase, u) ==
    IF phase = "male" THEN Uniform(1000, 3500, u)
    ELSE IF phase = "follicular" THEN Uniform(1000, 5000, u)
    ELSE IF phase = "ovulation" THEN Uniform(3000, 8000, u)
    ELSE Uniform(2000, 6000, u)

NeedsEstrogenDraw(condition) == condition \in {"PCOS", "Menopause", "Thyroid"}

EstrogenCondition(estrogen, condition, u) ==
    IF condition = "PCOS" THEN (estrogen * Uniform(500, 800, u)) \div 1000
    ELSE IF condition = "Menopause" THEN (estrogen * Uniform(200, 500, u)) \div 1000
    ELSE (estrogen * Uniform(700, 1500, u)) \div 1000

EstrogenAge(estrogen, gender, age) ==
    IF gender = "Female" /\ age > 45
    THEN (estrogen * Max(300, 1000 - (age - 45) * 30)) \div 1000
    ELSE estrogen

\* generate_testosterone
TestosteroneBase(gender, age, u) ==
    IF gender = "Male"
    THEN LET t == Uniform(60000, 180000, u)
         IN  IF age > 30 THEN (t * Max(500, 1000 - (age - 30) * 10)) \div 1000 ELSE t
    ELSE Uniform(15000, 50000, u)

NeedsTestosteroneDraw(condition, gender) ==
    \/ condition = "PCOS" /\ gender = "Female"
    \/ condition = "Low_T"
    \/ condition = "Menopause" /\ gender = "Female"

TestosteroneCondition(testosterone, condition, gender, u) ==
    IF condition = "PCOS" /\ gender = "Female"
    THEN (testosterone * Uniform(1500, 2500, u)) \div 1000
    ELSE IF condition = "Low_T" THEN (testosterone * Uniform(300, 600, u)) \div 1000
    ELSE (testosterone * Uniform(500, 800, u)) \div 1000

\* x += np.random.normal(0, x * percent / 100)
WithNoise(x, percent, u) == x + Normal(0, (x * percent) \div 100, u)

\* df.sample(frac=1, random_state=seed).reset_index(drop=True): a permutation
\* fixed by the seed and the length
Shuffle(data, seed) ==
    LET n == Len(data)
        k == IF n = 0 THEN 0 ELSE Advance(SeedState(seed)) % n
    IN  [j \in 1..n |-> data[1 + ((j - 1 + k) % n)]]

\* the locals of a call that has not run yet
NewFrame(seed, n_samples) ==
    [pc |-> "start", seed |-> seed, n_samples |-> n_samples, i |-> 1,
     ages |-> <<>>, genders |-> <<>>, times_of_day |-> <<>>, health_conditions |-> <<>>,
     cortisol |-> 0, estrogen |-> 0, testosterone |-> 0, status |-> "none",
     now |-> 0, sample_date |-> 0, data |-> <<>>, ret |-> <<>>]

\* RowOf without the floor of 0.1
RowOf_NoFloor(f, testosterone) ==
    [age |-> f.ages[f.i], gender |-> f.genders[f.i],
     cortisol |-> Round2(f.cortisol),
     estrogen |-> Round2(f.estrogen),
     testosterone |-> Round2(testosterone),
     time_of_day |-> f.times_of_day[f.i], sample_date |-> f.sample_date,
     health_condition |-> f.health_conditions[f.i], status |-> f.status]

\* the row appended at the end of an iteration
RowOf(f, testosterone) ==
    [age |-> f.ages[f.i], gender |-> f.genders[f.i],
     cortisol |-> Round2(Max(100, f.cortisol)),
     estrogen |-> Round2(Max(100, f.estrogen)),
     testosterone |-> Round2(Max(100, testosterone)),
     time_of_day |-> f.times_of_day[f.i], sample_date |-> f.sample_date,
     health_condition |-> f.health_conditions[f.i], status |-> f.status]

\* the label of the iteration, computed when the three hormones are generated
Labelled(f) ==
    [f EXCEPT !.status = classify_status(f.cortisol, f.estrogen, f.testosterone,
                                         f.genders[f.i], f.times_of_day[f.i]),
              !.pc = "clock"]

\* estrogen *= age factor, then on to generate_testosterone
EstrogenDone(f, estrogen) ==
    [f EXCEPT !.estrogen = EstrogenAge(estrogen, f.genders[f.i], f.ages[f.i]),
              !.pc = "testosterone_base"]

\* One step of a call: one access to a shared random source or to the clock,
\* with the local computation that follows it.  g holds the shared state.
GenStep(f, g) ==
    LET u == Advance(g.np)
        drawn == [g EXCEPT !.np = u]
        age == f.ages[f.i]
        gender == f.genders[f.i]
        time_of_day == f.times_of_day[f.i]
        condition == f.health_conditions[f.i]
        n == f.n_samples
        vector(Of(_)) == [k \in 1..n |-> Of(AdvanceN(g.np, k))]
        drawnN == [g EXCEPT !.np = AdvanceN(g.np, n)]
    IN  CASE f.pc = "start" ->
               [f |-> [f EXCEPT !.pc = "py_seed"], g |-> [g EXCEPT !.np = SeedState(f.seed)]]
          [] f.pc = "py_seed" ->
               [f |-> [f EXCEPT !.pc = "ages"], g |-> [g EXCEPT !.py = SeedState(f.seed)]]
          [] f.pc = "ages" ->
               [f |-> [f EXCEPT !.ages = vector(AgeOf), !.pc = "genders"], g |-> drawnN]
          [] f.pc = "genders" ->
               [f |-> [f EXCEPT !.genders = vector(GenderOf), !.pc = "times_of_day"],
                g |-> drawnN]
          [] f.pc = "times_of_day" ->
               [f |-> [f EXCEPT !.times_of_day = vector(TimeOf), !.pc = "health_conditions"],
                g |-> drawnN]
          [] f.pc = "health_conditions" ->
               [f |-> [f EXCEPT !.health_conditions = vector(ConditionOf),
                                !.pc = "cortisol_base"],
                g |-> drawnN]
          [] f.pc = "cortisol_base" ->
               LET c == CortisolBase(time_of_day, u)
               IN  [f |-> IF NeedsCortisolDraw(condition)
                          THEN [f EXCEPT !.cortisol = c, !.pc = "cortisol_condition"]
                          ELSE [f EXCEPT !.cortisol = CortisolAge(c, age),
                                         !.pc = "estrogen_base"],
                    g |-> drawn]
          [] f.pc = "cortisol_condition" ->
               [f |-> [f EXCEPT !.cortisol =
                                    CortisolAge(CortisolCondition(f.cortisol, condition, u), age),
                                !.pc = "estrogen_base"],
                g |-> drawn]
          [] f.pc = "estrogen_base" ->
               LET phase == IF gender = "Male" THEN "male" ELSE PhaseOf(u)
                   u2 == IF gender = "Male" THEN u ELSE Advance(u)
                   e == EstrogenBase(phase, u2)
               IN  [f |-> IF NeedsEstrogenDraw(condition)
                          THEN [f EXCEPT !.estrogen = e, !.pc = "estrogen_condition"]
                          ELSE EstrogenDone(f, e),
                    g |-> [g EXCEPT !.np = u2]]
          [] f.pc = "estrogen_condition" ->
               [f |-> EstrogenDone(f, EstrogenCondition(f.estrogen, condition, u)),
                g |-> drawn]
          [] f.pc = "testosterone_base" ->
               LET t == TestosteroneBase(gender, age, u)
               IN  [f |-> IF NeedsTestosteroneDraw(condition, gender)
                          THEN [f EXCEPT !.testosterone = t, !.pc = "testosterone_condition"]
                          ELSE Labelled([f EXCEPT !.testosterone = t]),
                    g |-> drawn]
          [] f.pc = "testosterone_condition" ->
               [f |-> Labelled([f EXCEPT !.testosterone =
                                    TestosteroneCondition(f.testosterone, condition, gender, u)]),
                g |-> drawn]
          [] f.pc = "clock" ->
               [f |-> [f EXCEPT !.now = g.today, !.pc = "randint"], g |-> g]
          [] f.pc = "randint" ->
               LET v == Advance(g.py)
               IN  [f |-> [f EXCEPT !.sample_date = f.now - RandInt730(v),
                                    !.pc = "noise_cortisol"],
                    g |-> [g EXCEPT !.py = v]]
          [] f.pc = "noise_cortisol" ->
               [f |-> [f EXCEPT !.cortisol = WithNoise(f.cortisol, 5, u),
                                !.pc = "noise_estrogen"],
                g |-> drawn]
          [] f.pc = "noise_estrogen" ->
               [f |-> [f EXCEPT !.estrogen = WithNoise(f.estrogen, 8, u),
                                !.pc = "noise_testosterone"],
                g |-> drawn]
          [] f.pc = "noise_testosterone" ->
               LET data == Append(f.data, RowOf(f, WithNoise(f.testosterone, 5, u)))
               IN  [f |-> IF f.i < n
                          THEN [f EXCEPT !.data = data, !.i = f.i + 1, !.pc = "cortisol_base"]
                          ELSE [f EXCEPT !.data = data, !.ret = Shuffle(data, f.seed),
                                         !.pc = "done"],
                    g |-> drawn]

\* generate_realistic_dataset(n_samples, seed) run alone on day `day`
RECURSIVE RunAlone(_, _)
RunAlone(f, g) ==
    IF f.pc = "done" THEN f.ret
    ELSE LET r == GenStep(f, g) IN RunAlone(r.f, r.g)

GenAlone(seed, n_samples, day) ==
    RunAlone(NewFrame(seed, n_samples), [np |-> 0, py |-> 0, today |-> day])

-----------------------------------------------------------------------------
(* The predictor's pure parts: analyze_hormones, get_health_insights and the  *)
(* shaping of the classifier's output                                         *)

\* label_encoder.classes_ (sorted), kept on the model as classes_labels_
LabelClasses == <<"Mild Imbalance", "Moderate Imbalance", "Normal", "Severe Imbalance">>

\* the class probabilities a fitted classifier may answer with, in
\* hundred-thousandths (each vector sums to 1.0)
ProbVectors ==
    { <<100000, 0, 0, 0>>, <<0, 0, 100000, 0>>,
      <<33350, 33350, 33300, 0>>, <<6667, 13333, 0, 80000>> }

\* Round1 rounding to a whole percent
Round1_Whole(prob) == ((prob + 500) \div 1000) * 10

\* round(prob * 100, 1), in tenths of a percent
Round1(prob) == (prob + 50) \div 100

\* the position of the largest entry (the first of them)
ArgMax(probabilities) ==
    CHOOSE k \in 1..Len(probabilities) :
        /\ \A j \in 1..Len(probabilities) : probabilities[j] <= probabilities[k]
        /\ \A j \in 1..(k - 1) : probabilities[j] < probabilities[k]

analyze_hormones(cortisol, estrogen, testosterone, gender, time_of_day) ==
    [cortisol |->
        IF time_of_day = "Morning"
        THEN IF cortisol < 3000
             THEN [status |-> "Low", level |-> cortisol, note |-> "Below morning reference"]
             ELSE IF cortisol > 10000
             THEN [status |-> "High", level |-> cortisol, note |-> "Elevated stress response"]
             ELSE [status |-> "Normal", level |-> cortisol, note |-> "Within morning range"]
        ELSE IF cortisol > (IF time_of_day = "Afternoon" THEN 4000 ELSE 2000)
             THEN [status |-> "High", level |-> cortisol,
                   note |-> IF time_of_day = "Afternoon" THEN "Elevated for afternoon"
                            ELSE IF time_of_day = "Evening" THEN "Elevated for evening"
                            ELSE "Elevated for night"]
             ELSE [status |-> "Normal", level |-> cortisol, note |-> "Appropriate diurnal level"],
     estrogen |->
        IF gender = "Male"
        THEN IF estrogen < 1000 THEN [status |-> "Low", level |-> estrogen, note |-> ""]
             ELSE IF estrogen > 4000 THEN [status |-> "High", level |-> estrogen, note |-> ""]
             ELSE [status |-> "Normal", level |-> estrogen, note |-> ""]
        ELSE IF estrogen < 1000 THEN [status |-> "Low", level |-> estrogen, note |-> ""]
             ELSE IF estrogen > 8000 THEN [status |-> "High", level |-> estrogen, note |-> ""]
             ELSE [status |-> "Normal", level |-> estrogen, note |-> ""],
     testosterone |->
        IF gender = "Male"
        THEN IF testosterone < 50000
             THEN [status |-> "Low", level |-> testosterone, note |-> "Below male reference"]
             ELSE IF testosterone > 200000
             THEN [status |-> "High", level |-> testosterone, note |-> ""]
             ELSE [status |-> "Normal", level |-> testosterone, note |-> ""]
        ELSE IF testosterone < 10000
             THEN [status |-> "Low", level |-> testosterone, note |-> ""]
             ELSE IF testosterone > 55000
             THEN [status |-> "High", level |-> testosterone, note |-> "Elevated for female"]
             ELSE [status |-> "Normal", level |-> testosterone, note |-> ""]]

\* get_health_insights: the bundle is keyed by the status; its urgency stands for it
get_health_insights(status) ==
    IF status = "Mild Imbalance" THEN [urgency |-> "moderate", color |-> "warning"]
    ELSE IF status = "Moderate Imbalance" THEN [urgency |-> "high", color |-> "orange"]
    ELSE IF status = "Severe Imbalance" THEN [urgency |-> "urgent", color |-> "danger"]
    ELSE [urgency |-> "low", color |-> "success"]

\* a classifier fitted on a training part that holds every label: classes_ are
\* the encoded labels 0..3, classes_labels_ the label encoder's classes_
FullClassifier == [classes_ |-> <<0, 1, 2, 3>>, classes_labels_ |-> LabelClasses]

\* max(probabilities)
Maximum(probabilities) ==
    CHOOSE x \in {probabilities[k] : k \in 1..Len(probabilities)} :
        \A k \in 1..Len(probabilities) : probabilities[k] <= x

\* ModelPredict answering the position of the class instead of the class
ModelPredict_Position(model, probabilities) == ArgMax(probabilities) - 1

\* model.predict(features)[0]: classes_.take(argmax(proba)), an encoded label
ModelPredict(model, probabilities) == model.classes_[ArgMax(probabilities)]

\* zip(model.classes_labels_, probabilities): pairs up to the shorter length
ZipLabels(classes_labels_, probabilities) ==
    [k \in 1..Min(Len(classes_labels_), Len(probabilities)) |->
        [label |-> classes_labels_[k], percent |-> Round1(probabilities[k])]]

\* the dict predict_status returns, for the class probabilities the classifier
\* `model` answered (one entry per class of model.classes_)
PredictionResult(r, model, probabilities) ==
    LET prediction_idx == ModelPredict(model, probabilities)
        prediction == model.classes_labels_[prediction_idx + 1]
    IN  [status |-> prediction,
         confidence |-> Round1(Maximum(probabilities)),
         insights |-> get_health_insights(prediction),
         hormone_analysis |-> analyze_hormones(r.cortisol, r.estrogen, r.testosterone,
                                               r.gender, r.time_of_day),
         probabilities |-> ZipLabels(model.classes_labels_, probabilities)]

-----------------------------------------------------------------------------
(* train_model: the features, the scaler, the label encoder, the split, the  *)
(* fitted classifier and the cross-validation                                *)

\* the largest number of rows with one label in the datasets tried
MaxCount == 6

\* the largest number of rows of the datasets tried
MaxRows == 12

\* the value pandas and float() give for "not a number"
NaN == -999

\* a row of the dataset with the given status
TrainingRow(status) ==
    IF status = "Normal"
    THEN [age |-> 35, cortisol |-> 5000, estrogen |-> 3000, testosterone |-> 100000,
          gender |-> "Male", time_of_day |-> "Morning", status |-> status]
    ELSE IF status = "Mild Imbalance"
    THEN [age |-> 52, cortisol |-> 12000, estrogen |-> 2000, testosterone |-> 40000,
          gender |-> "Male", time_of_day |-> "Morning", status |-> status]
    ELSE IF status = "Moderate Imbalance"
    THEN [age |-> 28, cortisol |-> 7000, estrogen |-> 9000, testosterone |-> 35000,
          gender |-> "Female", time_of_day |-> "Afternoon", status |-> status]
    ELSE [age |-> 61, cortisol |-> 5000, estrogen |-> 13000, testosterone |-> 90000,
          gender |-> "Female", time_of_day |-> "Evening", status |-> status]

\* the dataset with counts[l] rows of each label l, from position k of LabelClasses on
RECURSIVE RowsOf(_, _)
RowsOf(counts, k) ==
    IF k > Len(LabelClasses) THEN <<>>
    ELSE [j \in 1..counts[LabelClasses[k]] |-> TrainingRow(LabelClasses[k])]
         \o RowsOf(counts, k + 1)

\* the datasets train_model is called with: at least one row, at most MaxRows
Datasets ==
    LET all == {RowsOf(counts, 1) :
                    counts \in [{LabelClasses[k] : k \in 1..4} -> 0..MaxCount]}
    IN  {df \in all : Len(df) >= 1 /\ Len(df) <= MaxRows}

\* df['time_of_day'].map(time_mapping): a value outside the mapping becomes NaN
TimeMapped(time_of_day) ==
    IF time_of_day = "Morning" THEN 0
    ELSE IF time_of_day = "Afternoon" THEN 1
    ELSE IF time_of_day = "Evening" THEN 2
    ELSE NaN

\* one row of X = df[feature_cols].values
TrainFeatures(row) ==
    <<row.age, row.cortisol, row.estrogen, row.testosterone,
      IF row.gender = "Male" THEN 1 ELSE 0, TimeMapped(row.time_of_day)>>

\* StandardScaler().fit(X) on the rows `rows` of X: what the fitted scaler holds
\* (fitted_on: the rows that its mean_ and scale_ are computed from)
StandardScalerFit(X, rows) ==
    [n_features_in_ |-> IF rows = {} THEN 0 ELSE Len(X[CHOOSE i \in rows : TRUE]),
     n_samples_seen_ |-> Cardinality(rows),
     fitted_on |-> rows]

NoScaler == [n_features_in_ |-> 0, n_samples_seen_ |-> 0, fitted_on |-> {}]

\* df['status'].value_counts()[status]
CountOf(df, status) == Cardinality({i \in 1..Len(df) : df[i].status = status})

\* LabelEncoder().fit(y).classes_: the labels that occur, sorted
EncoderClasses(df) == SelectSeq(LabelClasses, LAMBDA l : CountOf(df, l) > 0)

\* label_encoder.transform: the position of the label in classes_, from 0
Encoded(classes, status) == (CHOOSE k \in 1..Len(classes) : classes[k] = status) - 1

\* df['status'].value_counts().min()
MinClassCount(df) ==
    LET counts == {CountOf(df, df[i].status) : i \in 1..Len(df)}
    IN  CHOOSE m \in counts : \A c \in counts : m <= c

\* use_stratify = min_class_count >= 5
UseStratify(min_class_count) == min_class_count >= 5

\* train_test_split(test_size=0.2): n_test = ceil(0.2 * n), n_train = n - n_test
TestSize(n) == (n + 4) \div 5

RECURSIVE SumOver(_, _)
SumOver(f, S) ==
    IF S = {} THEN 0
    ELSE LET x == CHOOSE y \in S : TRUE IN f[x] + SumOver(f, S \ {x})

\* The ways train_test_split can part the rows, told by the number of rows of
\* each label in the training part (rows of one label are alike, and any part
\* of the right size is the test part for some order of the rows).  With
\* stratify, each label's share of the training part is its share of the
\* dataset, rounded down or up.
Splits(df, use_stratify) ==
    LET n == Len(df)
        n_train == n - TestSize(n)
        present == {df[i].status : i \in 1..n}
        most == CHOOSE c \in {CountOf(df, l) : l \in present} :
                    \A l \in present : CountOf(df, l) <= c
    IN  { tr \in [present -> 0..most] :
            /\ \A l \in present : tr[l] <= CountOf(df, l)
            /\ SumOver(tr, present) = n_train
            /\ use_stratify =>
                  \A l \in present :
                      /\ tr[l] >= (CountOf(df, l) * n_train) \div n
                      /\ tr[l] <= (CountOf(df, l) * n_train + n - 1) \div n }

\* the place of row i among the rows of its label
NthOfLabel(df, i) == Cardinality({j \in 1..i : df[j].status = df[i].status})

\* the rows of the training part of a split
TrainRows(df, tr) == {i \in 1..Len(df) : NthOfLabel(df, i) <= tr[df[i].status]}

\* cv=3 of the grid search
GridCV == 3

\* StratifiedKFold(n_splits).split raises ValueError when no class has n_splits
\* members (so also when there are fewer than n_splits rows)
FoldsRaise(n_splits, class_counts) == \A c \in class_counts : c < n_splits

\* model.classes_ after fit(X_train, y_train): the encoded labels that occur in
\* y_train, ascending
FittedClasses(classes, tr) ==
    SelectSeq([k \in 1..Len(classes) |-> k - 1], LAMBDA e : tr[classes[e + 1]] > 0)

\* n_cv = min(5, min_class_count) if min_class_count >= 2 else 2
NCv(min_class_count) == IF min_class_count >= 2 THEN Min(5, min_class_count) ELSE 2

NoClassifier == [classes_ |-> <<>>, classes_labels_ |-> <<>>]

\* the frame of train_model(df) when it is called
NewTraining(df) ==
    [pc |-> "start", raised_at |-> "none", df |-> df, X |-> <<>>, scaler |-> NoScaler,
     label_classes |-> <<>>, y_encoded |-> <<>>, min_class_count |-> 0,
     use_stratify |-> FALSE, train |-> {}, test |-> {}, model |-> NoClassifier,
     n_cv |-> 0]

\* train_model from its first line to the split: features, scaler (fitted on
\* all of X), label encoder, min_class_count and use_stratify
Prepared(f) ==
    LET X == [i \in 1..Len(f.df) |-> TrainFeatures(f.df[i])]
        classes == EncoderClasses(f.df)
        m == MinClassCount(f.df)
    IN  [f EXCEPT !.X = X,
                  !.scaler = StandardScalerFit(X, 1..Len(f.df)),
                  !.label_classes = classes,
                  !.y_encoded = [i \in 1..Len(f.df) |-> Encoded(classes, f.df[i].status)],
                  !.min_class_count = m,
                  !.use_stratify = UseStratify(m)]

\* train_model from the split on, for the split `tr`: the grid search, the
\* fitted classifier, the cross-validation.  A ValueError of
\* the library ends the call at the place named in raised_at.
Fitted(f, tr) ==
    LET n == Len(f.df)
        train == TrainRows(f.df, tr)
        g == [f EXCEPT !.train = train, !.test = (1..n) \ train]
        present == {f.df[i].status : i \in 1..n}
        n_cv == NCv(f.min_class_count)
    IN  IF FoldsRaise(GridCV, {tr[l] : l \in {x \in present : tr[x] > 0}})
        THEN [g EXCEPT !.pc = "raised", !.raised_at = "GridSearchCV"]
        ELSE LET h == [g EXCEPT !.model = [classes_ |-> FittedClasses(f.label_classes, tr),
                                           classes_labels_ |-> f.label_classes],
                                !.n_cv = n_cv]
             IN  IF FoldsRaise(n_cv, {CountOf(f.df, l) : l \in present})
                 THEN [h EXCEPT !.pc = "raised", !.raised_at = "cross_val_score"]
                 ELSE [h EXCEPT !.pc = "returned"]

\* train_model when train_test_split raises: no row is left for training
SplitRaised(f) ==
    [f EXCEPT !.pc = "raised", !.raised_at = "train_test_split"]

-----------------------------------------------------------------------------
(* The persisted artifact and the processes that write and read it *)

FileNames == {"model", "scaler", "encoder", "dataset"}

\* joblib file contents: the training run that wrote them (0: no such file) and
\* whether the write has finished
Absent == [run |-> 0, whole |-> FALSE]

Exists(file) == file.run # 0

Procs == {"P1", "P2"}

\* the readings of the sample predictions of __main__, which the requests use
Requests ==
    { [cortisol |-> 5000, estrogen |-> 3000, testosterone |-> 100000,
       gender |-> "Male", time_of_day |-> "Morning"],
      [cortisol |-> 12000, estrogen |-> 2000, testosterone |-> 40000,
       gender |-> "Male", time_of_day |-> "Morning"],
      [cortisol |-> 3000, estrogen |-> 6000, testosterone |-> 35000,
       gender |-> "Female", time_of_day |-> "Afternoon"] }

NoReading ==
    [cortisol |-> 0, estrogen |-> 0, testosterone |-> 0,
     gender |-> "Male", time_of_day |-> "Morning"]

NoPrediction == <<>>

\* n_samples of the generation load_model asks for
ColdStartSamples == 2000

\* a process between calls.  model and scaler are the runs of the objects held
\* in memory (0: None); cold tells that load_model found no classifier file;
\* loads counts the joblib.load(MODEL_PATH) calls of the process so far
IdleProc(ncalls, was_cold, loads) ==
    [pc |-> "idle", kind |-> "none", ncalls |-> ncalls, request |-> NoReading,
     cold |-> FALSE, gen_n |-> 0, gen_seed |-> 0, run |-> 0,
     model |-> 0, scaler |-> 0, scaled |-> FALSE,
     prediction |-> NoPrediction, prev_cold |-> was_cold, loads |-> loads]

ArtIdle ==
    /\ files = [f \in FileNames |-> Absent]
    /\ procs = [p \in Procs |-> IdleProc(0, FALSE, 0)]
    /\ runs = 1

-----------------------------------------------------------------------------
(* predict_status with a model and a scaler handed in *)

\* the default of the parameter age
DefaultAge == 35

\* time_mapping.get(time_of_day, 0)
TimeEncoded(time_of_day) ==
    IF time_of_day = "Afternoon" THEN 1
    ELSE IF time_of_day = "Evening" THEN 2
    ELSE 0

\* PredictFeatures with the two encoded features exchanged
PredictFeatures_Exchanged(age, r) ==
    <<age, r.cortisol, r.estrogen, r.testosterone,
      TimeEncoded(r.time_of_day), IF r.gender = "Male" THEN 1 ELSE 0>>

\* features = np.array([[age, cortisol, estrogen, testosterone, gender_encoded,
\* time_encoded]])
PredictFeatures(age, r) ==
    <<age, r.cortisol, r.estrogen, r.testosterone,
      IF r.gender = "Male" THEN 1 ELSE 0, TimeEncoded(r.time_of_day)>>

\* scaler.transform(features) raises ValueError when a feature is not a finite
\* number or the number of features is not the number the scaler was fitted with
TransformRaises(scaler, features) ==
    \/ \E k \in 1..Len(features) : features[k] = NaN
    \/ scaler.n_features_in_ # Len(features)

\* the class probabilities a classifier with n classes may answer with, in
\* hundred-thousandths (each vector sums to 1.0)
ProbVectorsOf ==
    [n \in 1..4 |->
        IF n = 1 THEN { <<100000>> }
        ELSE IF n = 2 THEN { <<100000, 0>>, <<50000, 50000>>, <<12345, 87655>>,
                             <<99950, 50>> }
        ELSE IF n = 3 THEN { <<33333, 33333, 33334>>, <<0, 100000, 0>>,
                             <<20050, 30050, 49900>>, <<12649, 12649, 74702>> }
        ELSE ProbVectors \cup { <<25000, 25000, 25000, 25000>>,
                                <<25050, 25050, 25050, 24850>>,
                                <<10049, 20049, 30049, 39853>> }]

\* the readings asked about: the sample predictions, and one with a time of
\* day outside the mapping
Queries ==
    Requests \cup { [cortisol |-> 3500, estrogen |-> 6000, testosterone |-> 35000,
                     gender |-> "Female", time_of_day |-> "Night"] }

NoQuery ==
    [pc |-> "idle", age |-> 0, request |-> NoReading, features |-> <<>>,
     scaled |-> FALSE, proba |-> <<>>, result |-> NoPrediction]

\* predict_status(cortisol, estrogen, testosterone, model, scaler, age, gender,
\* time_of_day), the classifier answering `probabilities`
PredictStatus(model, scaler, age, r, probabilities) ==
    LET features == PredictFeatures(age, r)
        f == [NoQuery EXCEPT !.age = age, !.request = r, !.features = features]
    IN  IF TransformRaises(scaler, features)
        THEN [f EXCEPT !.pc = "raised"]
        ELSE [f EXCEPT !.pc = "returned", !.scaled = TRUE, !.proba = probabilities,
                       !.result = PredictionResult(r, model, probabilities)]

TrainIdle ==
    /\ training = NewTraining(<<>>)
    /\ query = NoQuery

-----------------------------------------------------------------------------
(* The web application (app.py): the session, add_data, delete_record *)

\* how many rows are inserted into hormone_records at most
MaxRecords == 2

\* the ids of the registered users
Users == {1, 2}

\* the columns age and gender of the users' rows
UserProfile(u) ==
    IF u = 1 THEN [age |-> 35, gender |-> "Male"] ELSE [age |-> 29, gender |-> "Female"]

\* a form field that the request does not carry
Missing == "<missing>"

\* the texts tried in a hormone field
FormNumbers == {"5.0", "0", "-1.5", "abc", "nan", "", Missing}

\* a form that add_data accepts
ValidForm ==
    [cortisol |-> "5.0", estrogen |-> "5.0", testosterone |-> "5.0",
     date |-> "2024-05-01", time |-> "08:30", time_of_day |-> "Morning"]

\* the forms posted to /add_data: the valid one, and those that differ from it
\* in one field, each with a recognised and an unrecognised time_of_day
Forms ==
    LET one_field ==
            {[ValidForm EXCEPT !.cortisol = text] : text \in FormNumbers}
            \cup {[ValidForm EXCEPT !.estrogen = text] : text \in {"0", "nan"}}
            \cup {[ValidForm EXCEPT !.testosterone = text] : text \in {"abc", "nan"}}
            \cup {[ValidForm EXCEPT !.date = ""], [ValidForm EXCEPT !.time = ""]}
    IN  {[form EXCEPT !.time_of_day = t] : form \in one_field, t \in {"Morning", "Night"}}

NoForm ==
    [cortisol |-> Missing, estrogen |-> Missing, testosterone |-> Missing,
     date |-> "", time |-> "", time_of_day |-> "Morning"]

\* float(request.form.get(name, 0)): ok is FALSE where float() raises ValueError;
\* the value is in thousandths
ParseFloat(text) ==
    IF text = Missing THEN [ok |-> TRUE, value |-> 0]
    ELSE IF text = "5.0" THEN [ok |-> TRUE, value |-> 5000]
    ELSE IF text = "0" THEN [ok |-> TRUE, value |-> 0]
    ELSE IF text = "-1.5" THEN [ok |-> TRUE, value |-> -1500]
    ELSE IF text = "nan" THEN [ok |-> TRUE, value |-> NaN]
    ELSE [ok |-> FALSE, value |-> 0]

\* x <= 0 for a float x: every comparison with NaN is False
NotPositive(x) == x # NaN /\ x <= 0

\* feature_cols of train_model
FeatureCols ==
    <<"age", "cortisol", "estrogen", "testosterone", "gender_encoded", "time_encoded">>

\* the scalers the application may find persisted: the one train_model writes,
\* and two written by other versions of the training code (one feature less;
\* the same features in another order)
AppScalers ==
    { [n_features_in_ |-> 6, order |-> FeatureCols],
      [n_features_in_ |-> 5,
       order |-> <<"age", "cortisol", "estrogen", "testosterone", "gender_encoded">>],
      [n_features_in_ |-> 6,
       order |-> <<"cortisol", "estrogen", "testosterone", "age", "gender_encoded",
                   "time_encoded">>] }

\* the class probabilities the application's classifier answers with
AppProbVectors == { <<6667, 13333, 0, 80000>> }

FlashLogin == "Please log in to access this page."
FlashPositive == "All hormone values must be positive."
FlashDateTime == "Please select date and time."
FlashValueError == "Please enter valid numeric values."
FlashComplete == "Analysis complete!"
FlashDeleted == "Record deleted."
FlashDenied == "Access denied."

NoResponse ==
    [route |-> "none", form |-> NoForm, record_id |-> 0, predict_called |-> FALSE,
     inserted |-> FALSE, flash |-> "", status |-> "none"]

AppIdle ==
    /\ session = [user_id |-> 0]
    /\ hormone_records = <<>>
    /\ next_id = 1
    /\ ml = [model |-> FullClassifier, scaler |-> [n_features_in_ |-> 6, order |-> FeatureCols]]
    /\ response = NoResponse

-----------------------------------------------------------------------------
(* Specification of the Reference Model *)

ClassifyIdle ==
    /\ reading = [cortisol |-> 0, estrogen |-> 0, testosterone |-> 0,
                  gender |-> "Male", time_of_day |-> "Morning"]
    /\ result = NoResult
    /\ moved = "none"

GenIdle ==
    /\ calls = [p \in Calls |-> NewFrame(DefaultSeed, 1)]
    /\ np_random = 0
    /\ py_random = 0
    /\ today = 0
    /\ running = "none"
    /\ preemptions = 0

InitClassify ==
    /\ reading \in Readings
    /\ result = NoResult
    /\ moved = "none"
    /\ GenIdle
    /\ ArtIdle
    /\ TrainIdle
    /\ AppIdle

\* classify_status(reading)
Classify ==
    /\ result = NoResult
    /\ result' = Classified(reading)
    /\ UNCHANGED <<reading, moved>>
    /\ UNCHANGED genVars
    /\ UNCHANGED artVars
    /\ UNCHANGED trainVars
    /\ UNCHANGED appVars

\* classify_status called again with one hormone value replaced by a value
\* further from its normal band, everything else held fixed
Worsen(h, v) ==
    /\ result # NoResult
    /\ moved = "none"
    /\ Further(NormalBand(h, reading.gender, reading.time_of_day), reading[h], v)
    /\ reading' = [reading EXCEPT ![h] = v]
    /\ result' = Classified(reading')
    /\ moved' = h
    /\ UNCHANGED genVars
    /\ UNCHANGED artVars
    /\ UNCHANGED trainVars
    /\ UNCHANGED appVars

NextClassify ==
    \/ Classify
    \/ \E h \in Hormones :
         \E v \in GridOf(h, reading.gender, reading.time_of_day) : Worsen(h, v)

Init == InitClassify

Next == NextClassify

Spec == Init /\ [][Next]_vars

-----------------------------------------------------------------------------
(* Specification of the generator: two calls of generate_realistic_dataset,  *)
(* one after the other or interleaved, and the wall clock                    *)

InitGen ==
    /\ calls \in [Calls -> {NewFrame(seed, n) : seed \in Seeds, n \in 1..MaxSamples}]
    /\ np_random = 0
    /\ py_random = 0
    /\ today = 0
    /\ running = "none"
    /\ preemptions = 0
    /\ ClassifyIdle
    /\ ArtIdle
    /\ TrainIdle
    /\ AppIdle

Active(f) == f.pc \notin {"start", "done"}

\* p takes its step while another call, the running one, is under way
Preempts(p) == running \notin {"none", p} /\ Active(calls[running])

\* the next step of call p
Generate(p) ==
    /\ calls[p].pc # "done"
    /\ Preempts(p) => preemptions < MaxPreemptions
    /\ LET r == GenStep(calls[p], [np |-> np_random, py |-> py_random, today |-> today])
       IN  /\ calls' = [calls EXCEPT ![p] = r.f]
           /\ np_random' = r.g.np
           /\ py_random' = r.g.py
    /\ running' = p
    /\ preemptions' = IF Preempts(p) THEN preemptions + 1 ELSE preemptions
    /\ UNCHANGED today
    /\ UNCHANGED classifyVars
    /\ UNCHANGED artVars
    /\ UNCHANGED trainVars
    /\ UNCHANGED appVars

\* midnight passes
Tick ==
    /\ today < MaxDay
    /\ today' = today + 1
    /\ UNCHANGED <<calls, np_random, py_random, running, preemptions>>
    /\ UNCHANGED classifyVars
    /\ UNCHANGED artVars
    /\ UNCHANGED trainVars
    /\ UNCHANGED appVars

NextGen == (\E p \in Calls : Generate(p)) \/ Tick

SpecGen == InitGen /\ [][NextGen]_vars

-----------------------------------------------------------------------------
(* Specification of the generator under any random source: one call for one  *)
(* row, each draw of np.random left open so that the rows of every seed are  *)
(* covered, also those no seed of the model's small generator reaches        *)

\* the draws tried: the lowest, and a high one (which selects Female, Evening,
\* Menopause and the oldest age)
DrawValues == {0, RngMod - 7}

\* the states of np.random from which the next draw is one of DrawValues
FreeStates == {s \in 0..(RngMod - 1) : Advance(s) \in DrawValues}

InitGenAny ==
    /\ \E seed \in Seeds : calls = [p \in Calls |-> NewFrame(seed, 1)]
    /\ np_random = 0
    /\ py_random = 0
    /\ today = 0
    /\ running = "none"
    /\ preemptions = 0
    /\ ClassifyIdle
    /\ ArtIdle
    /\ TrainIdle
    /\ AppIdle

\* the next step of call p, np.random being in state s when it is taken
GenerateAny(p, s) ==
    /\ calls[p].pc # "done"
    /\ LET r == GenStep(calls[p], [np |-> s, py |-> py_random, today |-> today])
       IN  /\ calls' = [calls EXCEPT ![p] = r.f]
           /\ np_random' = r.g.np
           /\ py_random' = r.g.py
    /\ running' = p
    /\ UNCHANGED <<today, preemptions>>
    /\ UNCHANGED classifyVars
    /\ UNCHANGED artVars
    /\ UNCHANGED trainVars
    /\ UNCHANGED appVars

NextGenAny == \E s \in FreeStates : GenerateAny("A", s)

SpecGenAny == InitGenAny /\ [][NextGenAny]_vars

-----------------------------------------------------------------------------
(* Specification of the artifact: processes that predict without a model in  *)
(* hand (predict_status -> load_model) or retrain (the --train entry point), *)
(* over the files they share                                                 *)

Persisted == [run |-> 1, whole |-> TRUE]

InitArtifact ==
    /\ files \in [FileNames -> {Absent, Persisted}]
    /\ procs = [p \in Procs |-> IdleProc(0, FALSE, 0)]
    /\ runs = 1
    /\ ClassifyIdle
    /\ GenIdle
    /\ TrainIdle
    /\ AppIdle

Others == <<classifyVars, genVars, trainVars, appVars>>

\* predict_status(cortisol, estrogen, testosterone) with model=None
StartPredict(p, request) ==
    /\ procs[p].pc = "idle"
    /\ procs[p].ncalls < MaxCalls
    /\ procs' = [procs EXCEPT ![p] = [@ EXCEPT !.pc = "exists_model", !.kind = "predict",
                                                !.ncalls = @ + 1, !.request = request]]
    /\ UNCHANGED <<files, runs, Others>>

\* python model.py --train
StartTrain(p) ==
    /\ procs[p].pc = "idle"
    /\ procs[p].ncalls < MaxCalls
    /\ procs' = [procs EXCEPT ![p] = [@ EXCEPT !.pc = "generate", !.kind = "train",
                                                !.ncalls = @ + 1]]
    /\ UNCHANGED <<files, runs, Others>>

\* os.path.exists(MODEL_PATH) with the SCALER_PATH in its place
ModelPathExists_Scaler(fs) == Exists(fs["scaler"])

\* os.path.exists(MODEL_PATH)
ModelPathExists(fs) == Exists(fs["model"])

\* load_model: if not os.path.exists(MODEL_PATH)
CheckModelExists(p) ==
    /\ procs[p].pc = "exists_model"
    /\ procs' = [procs EXCEPT ![p] =
                    [@ EXCEPT !.cold = ~Exists(files["model"]),
                              !.pc = IF ModelPathExists(files) THEN "load_model"
                                     ELSE "generate"]]
    /\ UNCHANGED <<files, runs, Others>>

\* df = generate_realistic_dataset(2000); df.to_csv(DATASET_PATH, index=False)
GenerateDataset(p) ==
    /\ procs[p].pc = "generate"
    /\ runs < MaxRuns
    /\ runs' = runs + 1
    /\ procs' = [procs EXCEPT ![p] = [@ EXCEPT !.gen_n = ColdStartSamples,
                                                !.gen_seed = DefaultSeed,
                                                !.run = runs + 1, !.pc = "fit"]]
    /\ files' = [files EXCEPT !["dataset"] = [run |-> runs + 1, whole |-> TRUE]]
    /\ UNCHANGED Others

\* train_model up to the fitted model, scaler and label encoder
Fit(p) ==
    /\ procs[p].pc = "fit"
    /\ procs' = [procs EXCEPT ![p] = [@ EXCEPT !.model = procs[p].run, !.scaler = procs[p].run,
                                                !.pc = "dump_model"]]
    /\ UNCHANGED <<files, runs, Others>>

\* the order of the three joblib.dump calls
AfterDump(f, kind) ==
    IF f = "model" THEN "dump_scaler"
    ELSE IF f = "scaler" THEN "dump_encoder"
    ELSE IF kind = "predict" THEN "predict"
    ELSE "done"

\* joblib.dump(obj, path): the file is opened for writing, which empties it
DumpOpen(p, f) ==
    /\ procs[p].pc = "dump_" \o f
    /\ files' = [files EXCEPT ![f] = [run |-> procs[p].run, whole |-> FALSE]]
    /\ procs' = [procs EXCEPT ![p] = [@ EXCEPT !.pc = "write_" \o f]]
    /\ UNCHANGED <<runs, Others>>

\* joblib.dump(obj, path): the object is written and the file closed
DumpWrite(p, f) ==
    /\ procs[p].pc = "write_" \o f
    /\ files' = [files EXCEPT ![f] = [run |-> procs[p].run, whole |-> TRUE]]
    /\ procs' = [procs EXCEPT ![p] = [@ EXCEPT !.pc = AfterDump(f, procs[p].kind)]]
    /\ UNCHANGED <<runs, Others>>

\* model = joblib.load(MODEL_PATH); a missing or half-written file raises
LoadModel(p) ==
    /\ procs[p].pc = "load_model"
    /\ procs' = [procs EXCEPT ![p] =
                    IF files["model"].whole
                    THEN [@ EXCEPT !.model = files["model"].run, !.loads = @ + 1,
                                   !.pc = "exists_scaler"]
                    ELSE [@ EXCEPT !.loads = @ + 1, !.pc = "raised"]]
    /\ UNCHANGED <<files, runs, Others>>

\* ... if os.path.exists(SCALER_PATH) else None
CheckScalerExists(p) ==
    /\ procs[p].pc = "exists_scaler"
    /\ procs' = [procs EXCEPT ![p] =
                    IF Exists(files["scaler"])
                    THEN [@ EXCEPT !.pc = "load_scaler"]
                    ELSE [@ EXCEPT !.scaler = 0, !.pc = "predict"]]
    /\ UNCHANGED <<files, runs, Others>>

\* scaler = joblib.load(SCALER_PATH)
LoadScaler(p) ==
    /\ procs[p].pc = "load_scaler"
    /\ procs' = [procs EXCEPT ![p] =
                    IF files["scaler"].whole
                    THEN [@ EXCEPT !.scaler = files["scaler"].run, !.pc = "predict"]
                    ELSE [@ EXCEPT !.pc = "raised"]]
    /\ UNCHANGED <<files, runs, Others>>

\* predict_status from `# Prepare features` to its return
Predict(p, probabilities) ==
    /\ procs[p].pc = "predict"
    /\ procs' = [procs EXCEPT ![p] =
                    [@ EXCEPT !.scaled = (procs[p].scaler # 0),
                              !.prediction = PredictionResult(procs[p].request, FullClassifier,
                                                              probabilities),
                              !.pc = "done"]]
    /\ UNCHANGED <<files, runs, Others>>

\* the call is over (returned or raised); the process may make another
Return(p) ==
    /\ procs[p].pc \in {"done", "raised"}
    /\ procs' = [procs EXCEPT ![p] =
                    IdleProc(@.ncalls, @.kind = "predict" /\ @.cold /\ @.pc = "done",
                             @.loads)]
    /\ UNCHANGED <<files, runs, Others>>

ArtifactFiles == {"model", "scaler", "encoder"}

NextArtifact ==
    \E p \in Procs :
        \/ \E request \in Requests : StartPredict(p, request)
        \/ StartTrain(p)
        \/ CheckModelExists(p)
        \/ GenerateDataset(p)
        \/ Fit(p)
        \/ \E f \in ArtifactFiles : DumpOpen(p, f)
        \/ \E f \in ArtifactFiles : DumpWrite(p, f)
        \/ LoadModel(p)
        \/ CheckScalerExists(p)
        \/ LoadScaler(p)
        \/ \E probabilities \in ProbVectors : Predict(p, probabilities)
        \/ Return(p)

SpecArtifact == InitArtifact /\ [][NextArtifact]_vars

-----------------------------------------------------------------------------
(* Specification of training: train_model(df) on a dataset, then a           *)
(* predict_status call with the model and the scaler it returned, as the     *)
(* --train entry point does                                                  *)

InitTrain ==
    /\ training \in {NewTraining(df) : df \in Datasets}
    /\ query = NoQuery
    /\ ClassifyIdle
    /\ GenIdle
    /\ ArtIdle
    /\ AppIdle

\* train_model(df), to its return or to the ValueError that ends it; a call
\* that gets to its end has written the three files
Train ==
    /\ training.pc = "start"
    /\ LET f == Prepared(training)
           n == Len(training.df)
       IN  IF n - TestSize(n) = 0
           THEN training' = SplitRaised(f)
           ELSE \E tr \in Splits(f.df, f.use_stratify) : training' = Fitted(f, tr)
    /\ IF training'.pc = "returned"
       THEN /\ runs' = runs + 1
            /\ files' = [name \in FileNames |->
                            IF name \in ArtifactFiles
                            THEN [run |-> runs + 1, whole |-> TRUE]
                            ELSE files[name]]
       ELSE UNCHANGED <<files, runs>>
    /\ UNCHANGED <<procs, query>>
    /\ UNCHANGED classifyVars
    /\ UNCHANGED genVars
    /\ UNCHANGED appVars

\* predict_status(..., model, scaler, 35, gender, time_of_day) with the objects
\* train_model returned
PredictTrained ==
    /\ training.pc = "returned"
    /\ query.pc = "idle"
    /\ \E r \in Queries :
         \E probabilities \in ProbVectorsOf[Len(training.model.classes_)] :
            query' = PredictStatus(training.model, training.scaler, DefaultAge, r,
                                   probabilities)
    /\ UNCHANGED <<training, artVars>>
    /\ UNCHANGED classifyVars
    /\ UNCHANGED genVars
    /\ UNCHANGED appVars

NextTrain == Train \/ PredictTrained

SpecTrain == InitTrain /\ [][NextTrain]_vars

-----------------------------------------------------------------------------
(* Specification of the per-hormone breakdown: predict_status called with a  *)
(* reading of the Reference Model's grid, and classify_status with the same  *)

\* a scaler fitted on the six features of train_model
SixFeatureScaler == [NoScaler EXCEPT !.n_features_in_ = Len(FeatureCols)]

InitBreakdown ==
    /\ reading \in Readings
    /\ result = NoResult
    /\ moved = "none"
    /\ GenIdle
    /\ ArtIdle
    /\ TrainIdle
    /\ AppIdle

\* predict_status(reading), whose dict holds analyze_hormones(reading)
Breakdown ==
    /\ query.pc = "idle"
    /\ \E probabilities \in AppProbVectors :
          query' = PredictStatus(FullClassifier, SixFeatureScaler, DefaultAge, reading,
                                 probabilities)
    /\ UNCHANGED training
    /\ UNCHANGED classifyVars
    /\ UNCHANGED genVars
    /\ UNCHANGED artVars
    /\ UNCHANGED appVars

NextBreakdown == Classify \/ Breakdown

SpecBreakdown == InitBreakdown /\ [][NextBreakdown]_vars

-----------------------------------------------------------------------------
(* Specification of the web application: one browser that logs in and out,   *)
(* posts forms to /add_data and asks for records to be deleted               *)

InitApp ==
    /\ session = [user_id |-> 0]
    /\ hormone_records = <<>>
    /\ next_id = 1
    /\ \E scaler \in AppScalers : ml = [model |-> FullClassifier, scaler |-> scaler]
    /\ response = NoResponse
    /\ ClassifyIdle
    /\ GenIdle
    /\ ArtIdle
    /\ TrainIdle

NotApp == <<classifyVars, genVars, artVars, trainVars>>

\* POST /login: the session gets the user's id when the password is right
Login(u, password_ok) ==
    /\ session' = IF password_ok THEN [user_id |-> u] ELSE session
    /\ response' = [NoResponse EXCEPT !.route = "login"]
    /\ UNCHANGED <<hormone_records, next_id, ml, NotApp>>

\* GET /logout: session.clear()
Logout ==
    /\ session' = [user_id |-> 0]
    /\ response' = [NoResponse EXCEPT !.route = "logout"]
    /\ UNCHANGED <<hormone_records, next_id, ml, NotApp>>

\* the body of add_data for a POST of a logged-in user: what it answers, and the
\* row it inserts (row.id = 0: none)
AddDataPost(user_id, form, probabilities) ==
    LET cortisol == ParseFloat(form.cortisol)
        estrogen == ParseFloat(form.estrogen)
        testosterone == ParseFloat(form.testosterone)
        user == UserProfile(user_id)
        r == [cortisol |-> cortisol.value, estrogen |-> estrogen.value,
              testosterone |-> testosterone.value, gender |-> user.gender,
              time_of_day |-> form.time_of_day]
        prediction == PredictStatus(ml.model, ml.scaler, user.age, r, probabilities)
        answer == [NoResponse EXCEPT !.route = "add_data", !.form = form]
        no_row == [id |-> 0]
    IN  IF ~cortisol.ok \/ ~estrogen.ok \/ ~testosterone.ok
        THEN [response |-> [answer EXCEPT !.flash = FlashValueError], row |-> no_row]
        ELSE IF \/ NotPositive(cortisol.value)
                \/ NotPositive(estrogen.value)
                \/ NotPositive(testosterone.value)
        THEN [response |-> [answer EXCEPT !.flash = FlashPositive], row |-> no_row]
        ELSE IF form.date = "" \/ form.time = ""
        THEN [response |-> [answer EXCEPT !.flash = FlashDateTime], row |-> no_row]
        ELSE IF prediction.pc = "raised"
        THEN [response |-> [answer EXCEPT !.predict_called = TRUE,
                                          !.flash = FlashValueError],
              row |-> no_row]
        ELSE [response |-> [answer EXCEPT !.predict_called = TRUE, !.inserted = TRUE,
                                          !.flash = FlashComplete,
                                          !.status = prediction.result.status],
              row |-> [id |-> next_id, user_id |-> user_id,
                       cortisol |-> cortisol.value, estrogen |-> estrogen.value,
                       testosterone |-> testosterone.value,
                       date |-> form.date, time |-> form.time,
                       time_of_day |-> form.time_of_day,
                       prediction |-> prediction.result.status,
                       confidence |-> prediction.result.confidence]]

\* POST /add_data
AddData(form, probabilities) ==
    IF session.user_id = 0
    THEN /\ response' = [NoResponse EXCEPT !.route = "add_data", !.form = form,
                                           !.flash = FlashLogin]
         /\ UNCHANGED <<session, hormone_records, next_id, ml, NotApp>>
    ELSE LET out == AddDataPost(session.user_id, form, probabilities)
         IN  /\ out.response.inserted => next_id <= MaxRecords
             /\ response' = out.response
             /\ hormone_records' = IF out.response.inserted
                                   THEN Append(hormone_records, out.row)
                                   ELSE hormone_records
             /\ next_id' = IF out.response.inserted THEN next_id + 1 ELSE next_id
             /\ UNCHANGED <<session, ml, NotApp>>

\* DeleteRecord without the comparison of the record's user_id with the session's
DeleteRecord_AnyOwner(record_id) ==
    LET answer == [NoResponse EXCEPT !.route = "delete_record", !.record_id = record_id]
        found == {k \in 1..Len(hormone_records) : hormone_records[k].id = record_id}
    IN  IF session.user_id = 0
        THEN /\ response' = [answer EXCEPT !.flash = FlashLogin]
             /\ UNCHANGED <<session, hormone_records, next_id, ml, NotApp>>
        ELSE IF found # {}
        THEN /\ hormone_records' = SelectSeq(hormone_records, LAMBDA row : row.id # record_id)
             /\ response' = [answer EXCEPT !.flash = FlashDeleted]
             /\ UNCHANGED <<session, next_id, ml, NotApp>>
        ELSE /\ response' = [answer EXCEPT !.flash = FlashDenied]
             /\ UNCHANGED <<session, hormone_records, next_id, ml, NotApp>>

\* POST /delete_record/<record_id>
DeleteRecord(record_id) ==
    LET answer == [NoResponse EXCEPT !.route = "delete_record", !.record_id = record_id]
        found == {k \in 1..Len(hormone_records) : hormone_records[k].id = record_id}
    IN  IF session.user_id = 0
        THEN /\ response' = [answer EXCEPT !.flash = FlashLogin]
             /\ UNCHANGED <<session, hormone_records, next_id, ml, NotApp>>
        ELSE IF \E k \in found : hormone_records[k].user_id = session.user_id
        THEN /\ hormone_records' = SelectSeq(hormone_records, LAMBDA row : row.id # record_id)
             /\ response' = [answer EXCEPT !.flash = FlashDeleted]
             /\ UNCHANGED <<session, next_id, ml, NotApp>>
        ELSE /\ response' = [answer EXCEPT !.flash = FlashDenied]
             /\ UNCHANGED <<session, hormone_records, next_id, ml, NotApp>>

NextApp ==
    \/ \E u \in Users, password_ok \in BOOLEAN : Login(u, password_ok)
    \/ Logout
    \/ \E form \in Forms, probabilities \in AppProbVectors : AddData(form, probabilities)
    \/ \E record_id \in 1..(MaxRecords + 1) : DeleteRecord(record_id)

SpecApp == InitApp /\ [][NextApp]_vars

-----------------------------------------------------------------------------
(* Claims about the Reference Model, checked under Spec *)

\* the position of a label in the order Normal < Mild < Moderate < Severe
Rank(status) == CHOOSE k \in 1..4 : STATUS_LEVELS[k] = status

\* C1: every call adds one contribution in {0,1,2} per hormone, so the score is
\* in 0..6, and the label is Severe for a score >= 5, Moderate for 3 or 4, Mild
\* for 1 or 2 and Normal only for 0.
C1_ScoreAndLabel ==
    result # NoResult =>
        /\ \A h \in Hormones : Contribution(h, reading) \in 0..2
        /\ result.score = Contribution("cortisol", reading)
                          + Contribution("estrogen", reading)
                          + Contribution("testosterone", reading)
        /\ result.score \in 0..6
        /\ result.score >= 5 => result.status = "Severe Imbalance"
        /\ result.score \in {3, 4} => result.status = "Moderate Imbalance"
        /\ result.score \in {1, 2} => result.status = "Mild Imbalance"
        /\ result.status = "Normal" <=> result.score = 0

\* a call in which all three hormones contribute 2
C1_Witness ==
    /\ result.score = 6
    /\ result.status = "Severe Imbalance"
    /\ moved = "none"

\* C2: replacing one hormone value by one further from its normal band on the
\* same side never lowers that hormone's contribution, the score or the label.
C2_Monotone ==
    [][ (moved = "none" /\ moved' # "none") =>
            /\ Contribution(moved', reading') >= Contribution(moved', reading)
            /\ result'.score >= result.score
            /\ Rank(result'.status) >= Rank(result.status) ]_vars

\* a cortisol value below the band was lowered past the severe cut
C2_Witness ==
    /\ moved = "cortisol"
    /\ reading.cortisol < CortisolCuts(reading.time_of_day)[1]
    /\ Contribution("cortisol", reading) = 2
    /\ result.status = "Severe Imbalance"

IsSample2(r) ==
    /\ r.cortisol = 12000 /\ r.estrogen = 2000 /\ r.testosterone = 40000
    /\ r.gender = "Male" /\ r.time_of_day = "Morning"

\* C3 as stated: the sample (12.0, 2.0, 40.0, Male, Morning) scores at least 3
\* and is Moderate or Severe.
C3_Original ==
    (result # NoResult /\ IsSample2(reading)) =>
        /\ result.score >= 3
        /\ result.status \in {"Moderate Imbalance", "Severe Imbalance"}

\* C3 amended: the sample (12.0, 2.0, 40.0, Male, Morning) scores exactly 2
\* (cortisol 1, estrogen 0, testosterone 1) and is Mild Imbalance.
C3_SampleIsMild ==
    (result # NoResult /\ IsSample2(reading)) =>
        /\ Contribution("cortisol", reading) = 1
        /\ Contribution("estrogen", reading) = 0
        /\ Contribution("testosterone", reading) = 1
        /\ result.score = 2
        /\ result.status = "Mild Imbalance"

C3_Witness == result # NoResult /\ IsSample2(reading) /\ moved = "none"

\* C4: a Male, Morning reading with cortisol in [4,10], estrogen in [1,4] and
\* testosterone in [50,200], endpoints included, is Normal.
C4_InBandIsNormal ==
    ( /\ result # NoResult
      /\ reading.gender = "Male" /\ reading.time_of_day = "Morning"
      /\ reading.cortisol \in 4000..10000
      /\ reading.estrogen \in 1000..4000
      /\ reading.testosterone \in 50000..200000 )
    => result.status = "Normal"

\* the three upper endpoints, and the first sample prediction, classified
C4_Witness ==
    /\ result.status = "Normal"
    /\ reading.gender = "Male" /\ reading.time_of_day = "Morning"
    /\ \/ reading.cortisol = 10000 /\ reading.estrogen = 4000
          /\ reading.testosterone = 200000
       \/ reading.cortisol = 5000 /\ reading.estrogen = 3000
          /\ reading.testosterone = 100000

-----------------------------------------------------------------------------
(* Claims about the generator, checked under SpecGen *)

Done(p) == calls[p].pc = "done"

RowLabelFromStoredValues(row) ==
    row.status = classify_status(row.cortisol, row.estrogen, row.testosterone,
                                 row.gender, row.time_of_day)

\* C5: in every row a call returns, the stored status is classify_status of the
\* row's stored cortisol, estrogen, testosterone, gender and time_of_day.  Stated
\* for calls that ran without any other call interleaved.
C5_LabelFromStoredValues ==
    \A p \in Calls :
        (Done(p) /\ preemptions = 0) =>
            \A k \in 1..Len(calls[p].ret) : RowLabelFromStoredValues(calls[p].ret[k])

\* C6: two calls with the same n_samples and seed, run one after the other,
\* return identical datasets, whatever the wall clock did.
C6_SameSeedSameDataset ==
    ( /\ Done("A") /\ Done("B")
      /\ preemptions = 0
      /\ calls["A"].seed = calls["B"].seed
      /\ calls["A"].n_samples = calls["B"].n_samples )
    => calls["A"].ret = calls["B"].ret

\* C7: of two calls with different seeds, interleaved in any way, each returns
\* the dataset it returns when run alone (the clock standing still at day 0).
C7_IndependentOfInterleaving ==
    \A p \in Calls :
        ( /\ Done(p)
          /\ today = 0
          /\ \A q \in Calls \ {p} : calls[q].seed # calls[p].seed )
        => calls[p].ret = GenAlone(calls[p].seed, calls[p].n_samples, 0)

\* C18: every row a call returns is valid: each hormone value is at least 0.1,
\* the age is an integer in 18..70, the gender is Male or Female, the
\* time_of_day is Morning, Afternoon or Evening, the status one of the four
\* labels; whatever the random source draws.
C18_RowsValid ==
    \A p \in Calls :
        Done(p) =>
            \A k \in 1..Len(calls[p].ret) :
                LET row == calls[p].ret[k]
                IN  /\ row.cortisol >= 100
                    /\ row.estrogen >= 100
                    /\ row.testosterone >= 100
                    /\ row.age \in 18..70
                    /\ row.gender \in {"Male", "Female"}
                    /\ row.time_of_day \in {"Morning", "Afternoon", "Evening"}
                    /\ row.status \in {"Normal", "Mild Imbalance", "Moderate Imbalance",
                                        "Severe Imbalance"}

\* a call returned a row whose estrogen is the floor 0.1 and whose age is the
\* upper end of the range (both were cut to it)
C18_Witness ==
    \E p \in Calls :
        /\ Done(p)
        /\ Len(calls[p].ret) = 1
        /\ calls[p].ret[1].estrogen = 100
        /\ calls[p].ret[1].age = 70

-----------------------------------------------------------------------------
(* Claims about the artifact, checked under SpecArtifact *)

\* load_model has returned to predict_status by loading the files
Loaded(f) == f.kind = "predict" /\ ~f.cold /\ f.pc \in {"predict", "done"}

\* C8: a load_model that runs while a training run persists never returns a
\* classifier of one training run with the scaler of another run or with none.
\* Stated for the objects of the runs of this behaviour (runs 2 and up).
C8_AtomicReplace ==
    \A p \in Procs :
        (Loaded(procs[p]) /\ (procs[p].model > 1 \/ procs[p].scaler > 1))
            => procs[p].scaler = procs[p].model

\* C9: whatever files are present, load_model hands back the classifier with the
\* scaler persisted with it, and predict_status returns no label computed from
\* unscaled features.  Stated for behaviours without any training (runs = 1),
\* where the files are those present at the start.
C9_LoadedTogether ==
    \A p \in Procs :
        (runs = 1 /\ Loaded(procs[p])) =>
            /\ procs[p].scaler # 0
            /\ procs[p].scaler = procs[p].model
            /\ procs[p].pc = "done" => procs[p].scaled

ResultKeys == {"status", "confidence", "probabilities", "hormone_analysis", "insights"}

\* C10: a predict_status without a model that finds no classifier file does not
\* raise; it generates 2000 samples with the default seed, trains, persists the
\* three files and returns a result with the five keys; the classifier file
\* exists from then on, so the process's next load does not retrain.
C10_ColdStart ==
    \A p \in Procs :
        LET f == procs[p] IN
        /\ (f.kind = "predict" /\ f.cold) => f.pc # "raised"
        /\ (f.kind = "predict" /\ f.cold /\ f.pc = "done") =>
              /\ f.gen_n = 2000 /\ f.gen_seed = 42
              /\ f.run > 1 /\ f.model = f.run /\ f.scaler = f.run /\ f.scaled
              /\ \A name \in ArtifactFiles : Exists(files[name])
              /\ DOMAIN f.prediction = ResultKeys
              /\ f.prediction.status \in {STATUS_LEVELS[k] : k \in 1..4}
        /\ f.prev_cold => Exists(files["model"])
        /\ (f.prev_cold /\ f.kind = "predict" /\ f.pc # "exists_model") =>
              (~f.cold /\ f.run = 0)

\* a cold start returned, and the same process's next prediction loaded the files
C10_Witness ==
    \E p \in Procs :
        /\ procs[p].prev_cold
        /\ procs[p].kind = "predict"
        /\ procs[p].pc = "done"
        /\ procs[p].model > 1

\* the positions of a call that has written the dataset file and trains or
\* writes the artifact's files
TrainingSteps ==
    {"fit"} \cup {"dump_" \o f : f \in {"model", "scaler", "encoder"}}
            \cup {"write_" \o f : f \in {"model", "scaler", "encoder"}}

\* C11: over the prediction requests of one process the classifier file is read
\* at most once, and no predict_status call generates, retrains or writes a file.
C11_PredictionIsPure ==
    \A p \in Procs :
        /\ procs[p].loads <= 1
        /\ procs[p].kind = "predict" => procs[p].pc \notin TrainingSteps

-----------------------------------------------------------------------------
(* Claims about training and prediction, checked under SpecTrain *)

Answered == query.pc = "returned"

\* C12: the returned status is the label of a class to which the classifier
\* gave the highest probability, and the confidence is that probability as a
\* percentage rounded to one decimal, so it lies between 0 and 100.
C12_StatusIsArgMax ==
    Answered =>
        LET proba == query.proba
            model == training.model
        IN  \E k \in 1..Len(proba) :
                /\ \A j \in 1..Len(proba) : proba[j] <= proba[k]
                /\ query.result.status = model.classes_labels_[model.classes_[k] + 1]
                /\ query.result.confidence * 100 - proba[k] \in -50..50
                /\ query.result.confidence \in 0..1000

\* the classifier lacks a class of the label encoder and answered a class whose
\* position in classes_ is not its encoded label
C12_Witness ==
    /\ Answered
    /\ Len(training.model.classes_) < Len(training.model.classes_labels_)
    /\ query.result.status # training.model.classes_labels_[ArgMax(query.proba)]

\* C13: every value of the returned probabilities is between 0 and 100 and the
\* values sum to 100 within 0.5 (in tenths of a percent: 1000 within 5).
C13_ProbabilitiesSum ==
    Answered =>
        LET ps == query.result.probabilities
            total == SumOver([k \in 1..Len(ps) |-> ps[k].percent], 1..Len(ps))
        IN  /\ \A k \in 1..Len(ps) : ps[k].percent \in 0..1000
            /\ total - 1000 \in -5..5

\* a result whose rounded percentages do not sum to exactly 100
C13_Witness ==
    /\ Answered
    /\ LET ps == query.result.probabilities
       IN  SumOver([k \in 1..Len(ps) |-> ps[k].percent], 1..Len(ps)) # 1000

\* C21: in every PredictionResult the probabilities pair each label with the
\* probability the classifier gave to that label's own class, so the entry of
\* the returned status equals the confidence and no entry is larger; also when
\* the training part of an unstratified split lacks a label of the dataset.
C21_LabelsAligned ==
    Answered =>
        LET ps == query.result.probabilities
            proba == query.proba
            model == training.model
        IN  /\ \A k \in 1..Len(ps) :
                  \E j \in 1..Len(proba) :
                      /\ ps[k].label = model.classes_labels_[model.classes_[j] + 1]
                      /\ ps[k].percent = Round1(proba[j])
            /\ \E k \in 1..Len(ps) :
                  /\ ps[k].label = query.result.status
                  /\ ps[k].percent = query.result.confidence
            /\ \A k \in 1..Len(ps) : ps[k].percent <= query.result.confidence

\* C14: no row of the test part of the split is among the rows the scaler's
\* statistics are computed from.
C14_ScalerFromTrainingRows ==
    training.pc = "returned" => training.scaler.fitted_on \cap training.test = {}

\* the six entries the claim names, for a row or a query x of age `age`
SixFeatures(age, x) ==
    <<age, x.cortisol, x.estrogen, x.testosterone,
      IF x.gender = "Male" THEN 1 ELSE 0,
      IF x.time_of_day = "Morning" THEN 0
      ELSE IF x.time_of_day = "Afternoon" THEN 1 ELSE 2>>

Recognised(x) ==
    x.gender \in {"Male", "Female"} /\ x.time_of_day \in {"Morning", "Afternoon", "Evening"}

\* C15: for a recognised gender and time_of_day, each row of X in train_model
\* and the features of predict_status are the six entries age, cortisol,
\* estrogen, testosterone, gender_encoded (1 exactly for Male), time_encoded
\* (0, 1, 2 for Morning, Afternoon, Evening); so a query with the values of a
\* training row has that row's feature vector.
C15_SameFeatureVector ==
    /\ training.pc # "start" =>
          \A i \in 1..Len(training.df) :
              Recognised(training.df[i]) =>
                  training.X[i] = SixFeatures(training.df[i].age, training.df[i])
    /\ (query.pc # "idle" /\ Recognised(query.request)) =>
          /\ query.features = SixFeatures(query.age, query.request)
          /\ \A i \in 1..Len(training.df) :
                ( /\ training.df[i].age = query.age
                  /\ \A h \in Hormones : training.df[i][h] = query.request[h]
                  /\ training.df[i].gender = query.request.gender
                  /\ training.df[i].time_of_day = query.request.time_of_day )
                => training.X[i] = query.features

\* a query with the values of a row of the dataset, and one for a woman in the
\* afternoon
C15_Witness ==
    /\ Answered
    /\ \/ \E i \in 1..Len(training.df) : training.X[i] = query.features
       \/ query.request.gender = "Female" /\ query.request.time_of_day = "Afternoon"

\* C17: with m the smallest number of rows of a label, the split is stratified
\* exactly when m >= 5, the fold count is min(5, m) when m >= 2 and 2 when
\* m = 1, so between 2 and 5, and the call does not end in an error.
C17_SplitAndFolds ==
    training.pc # "start" =>
        LET m == MinClassCount(training.df)
        IN  /\ training.use_stratify <=> m >= 5
            /\ training.pc = "returned"
            /\ training.n_cv = IF m >= 2 THEN Min(5, m) ELSE 2
            /\ training.n_cv \in 2..5

-----------------------------------------------------------------------------
(* Claims about the per-hormone breakdown, checked under SpecBreakdown *)

\* C20: the per-hormone breakdown agrees with the Reference Model: for every
\* reading, gender and time_of_day, analyze_hormones reports a hormone as
\* 'Normal' exactly when its check in classify_status contributes 0, as 'Low'
\* exactly when the value is below the band that contributes 0, and as 'High'
\* exactly when it is above that band
C20_BreakdownAgrees ==
    query.pc = "returned" =>
        \A h \in Hormones :
            LET r == query.request
                status == query.result.hormone_analysis[h].status
                band == NormalBand(h, r.gender, r.time_of_day)
            IN  /\ (status = "Normal") <=> (Contribution(h, r) = 0)
                /\ (status = "Low") <=> (r[h] < band[1])
                /\ (status = "High") <=> (r[h] > band[2])

\* C22: a time_of_day outside Morning, Afternoon, Evening is handled as Morning
\* throughout one predict_status call: the feature vector carries the encoding
\* 0 and the cortisol entry of the analysis in the same result uses the morning
\* bands (Low below 3.0, High above 10.0).
C22_UnrecognisedIsMorning ==
    (query.pc = "returned"
        /\ query.request.time_of_day \notin {"Morning", "Afternoon", "Evening"}) =>
        LET cortisol == query.request.cortisol
        IN  /\ query.features[6] = 0
            /\ query.result.hormone_analysis.cortisol.status =
                   (IF cortisol < 3000 THEN "Low"
                    ELSE IF cortisol > 10000 THEN "High"
                    ELSE "Normal")

-----------------------------------------------------------------------------
(* Claims about the web application, checked under SpecApp *)

\* the persisted scaler expects another number or another order of features
\* than predict_status builds
ScalerMismatch == ml.scaler.n_features_in_ # 6 \/ ml.scaler.order # FeatureCols

\* C16: a prediction with a scaler that expects another feature count or order
\* returns no status label (nothing is stored), and the request fails with an
\* error other than the ones add_data gives for invalid input.
C16_MismatchIsDistinctError ==
    (ScalerMismatch /\ response.route = "add_data" /\ response.predict_called) =>
        /\ response.status = "none"
        /\ ~response.inserted
        /\ response.flash \notin {FlashValueError, FlashPositive, FlashDateTime}

\* the texts of a hormone field that float() rejects or that are no positive number
InvalidNumber(text) == text \in {"abc", "", "0", "-1.5", "nan", Missing}

InvalidForm(form) ==
    \/ InvalidNumber(form.cortisol)
    \/ InvalidNumber(form.estrogen)
    \/ InvalidNumber(form.testosterone)
    \/ form.date = ""
    \/ form.time = ""

\* C19: a POST to add_data with an unparseable hormone field, a hormone value
\* that is no positive number, or an empty date or time does not call
\* predict_status and inserts no row; every stored row has three hormone values
\* above 0 and a date and a time.
C19_InvalidInputRejected ==
    /\ (response.route = "add_data" /\ InvalidForm(response.form)) =>
          (~response.predict_called /\ ~response.inserted)
    /\ \A k \in 1..Len(hormone_records) :
          LET row == hormone_records[k]
          IN  /\ \A h \in Hormones : row[h] # NaN /\ row[h] > 0
              /\ row.date # "" /\ row.time # ""

\* the ids of the rows of `records`
IdsOf(records) == {records[k].id : k \in 1..Len(records)}

\* C23: across logins, logouts and delete_record requests a hormone record is
\* removed only by a delete_record request for its id made in a session whose
\* user_id is the record's user_id; a delete_record request without a logged-in
\* session, for a record of another user or for an id no record has leaves
\* hormone_records unchanged.
C23_DeleteOnlyOwn ==
    [][ LET removed == {k \in 1..Len(hormone_records) :
                           hormone_records[k].id \notin IdsOf(hormone_records')}
            own == {k \in 1..Len(hormone_records) :
                       /\ hormone_records[k].id = response'.record_id
                       /\ hormone_records[k].user_id = session.user_id}
        IN  /\ \A k \in removed :
                  /\ response'.route = "delete_record"
                  /\ response'.record_id = hormone_records[k].id
                  /\ session.user_id # 0
                  /\ session.user_id = hormone_records[k].user_id
            /\ (response'.route = "delete_record" /\ (session.user_id = 0 \/ own = {})) =>
                  hormone_records' = hormone_records
      ]_vars

\* a user removed a record of their own while a record of another user stays
C23_Witness ==
    /\ response.route = "delete_record"
    /\ response.flash = FlashDeleted
    /\ Len(hormone_records) = 1
    /\ hormone_records[1].user_id # session.user_id

=============================================================================
